---- MODULE Spec2Model ----
(***************************************************************************)
(* Model of app.py: the Solana memecoin predictor.                         *)
(*                                                                         *)
(* Units.  Prices are integers counting 1e-10 USD (so 1e-5 USD = 100000    *)
(* and one unit of the 8th decimal place = 100); volumes and liquidity are *)
(* whole USD; probabilities are thousandths; confidences are hundredths;   *)
(* drifts are basis points (1e-4); times are epoch milliseconds.           *)
(***************************************************************************)
EXTENDS Integers, Sequences, FiniteSets, TLC

VARIABLES model, req

vars == <<model, req>>

(***************************************************************************)
(* Python values                                                           *)
(***************************************************************************)
None == [tag |-> "None"]

\* the unpickled classifier object (app.py:14)
Loaded == [tag |-> "model"]

\* a raw JSON field: a number, a non-numeric string, or a missing key
Num(v) == [k |-> "num", v |-> v]

Text == [k |-> "text", v |-> 0]

Absent == [k |-> "absent", v |-> 0]

\* float(x): succeeds on a number; ValueError on non-numeric text; the
\* subscript pair["priceUsd"] raises KeyError before float() on a missing key
Floatable(f) == f.k = "num"

(***************************************************************************)
(* Bounds of the model                                                     *)
(***************************************************************************)
\* longest upstream "pairs" list of /latest/dex/search
MaxPairs == 2

\* longest upstream "points" list of the chart endpoint
MaxPoints == 12

\* longest upstream "pairs" list of /latest/dex/tokens/solana
MaxItems == 9

\* number of requests that can be in flight at once (SpecConc)
MaxReq == 2

Slots == 1..MaxReq

(***************************************************************************)
(* fetch_token_data (app.py:20-36)                                         *)
(***************************************************************************)
\* a substituted default instead of a hard failure (as latest_tokens does)
BuildSnapshotDefaults(pair) ==
    [k |-> "ok",
     symbol |-> IF pair.hasBase THEN pair.symbol ELSE "",
     name |-> IF pair.hasBase THEN pair.name ELSE "",
     price |-> IF Floatable(pair.priceUsd) THEN pair.priceUsd.v ELSE 0,
     volume24h |-> IF Floatable(pair.h24) THEN pair.h24.v ELSE 0,
     liquidityUsd |-> IF Floatable(pair.usd) THEN pair.usd.v ELSE 0]

\* the dict literal of lines 26-32: any KeyError / ValueError / TypeError in
\* it raises; the values are float(...) of the upstream fields, unchanged
BuildSnapshot(pair) ==
    IF pair.hasBase /\ Floatable(pair.priceUsd) /\ Floatable(pair.h24)
       /\ Floatable(pair.usd)
    THEN [k |-> "ok", symbol |-> pair.symbol, name |-> pair.name,
          price |-> pair.priceUsd.v,
          volume24h |-> pair.h24.v,
          liquidityUsd |-> pair.usd.v]
    ELSE [k |-> "raise"]

\* the for loop of lines 24-33 from index i: the first pair whose chainId is
\* "solana" ends the loop, by return or by raise
RECURSIVE ScanPairs(_, _)
ScanPairs(pairs, i) ==
    IF i > Len(pairs) THEN [k |-> "none"]
    ELSE IF pairs[i].chainId = "solana" THEN BuildSnapshot(pairs[i])
    ELSE ScanPairs(pairs, i + 1)

\* resp: [k |-> "fail"]  requests.get or resp.json() raised
\*       [k |-> "json", pairs |-> <<...>>, haspairs, nullpairs]
fetch_token_data(resp) ==
    IF resp.k = "fail" THEN None                      \* except, line 36
    ELSE IF ~resp.haspairs THEN None                  \* .get default [], line 33
    ELSE IF resp.nullpairs THEN None                  \* iterating None raises
    ELSE LET s == ScanPairs(resp.pairs, 1) IN
         IF s.k = "ok"
         THEN [symbol |-> s.symbol, name |-> s.name, price |-> s.price,
               volume24h |-> s.volume24h, liquidityUsd |-> s.liquidityUsd]
         ELSE None                                    \* line 33 or line 36

(***************************************************************************)
(* predict_trend (app.py:38-70)                                            *)
(***************************************************************************)
threshold_high_volume == 20000

threshold_high_liquidity == 50000

\* 1e-5 USD, line 60
low_price == 100000

\* narrative segments: literal text, or a formatted number
Lit(s) == [t |-> "text", s |-> s, n |-> 0]

NumSeg(n) == [t |-> "num", s |-> "", n |-> n]

HighVolumeText == "High trading volume detected - lots of buying and selling."

LowVolumeText == "Low volume - market may be stagnant or illiquid."

StrongLiquidityText == "Strong liquidity - less price manipulation risk."

WeakLiquidityText == "Weak liquidity - price may be easily manipulated."

LowPriceText == "Very low price - could be high risk or new token."

UnavailableText == "Model not loaded or data unavailable"

\* a degraded result that still reports an observation
DegradedWithObservation ==
    [k |-> "ret", calls |-> 0, prediction |-> "unknown", confidence |-> 0,
     reasoning |-> <<Lit(UnavailableText), Lit(LowVolumeText)>>]

\* the dict returned at line 40
Degraded ==
    [k |-> "ret", calls |-> 0, prediction |-> "unknown", confidence |-> 0,
     reasoning |-> <<Lit(UnavailableText)>>]

\* a table whose default is a real label
class_map_get_default_sideways(c) ==
    IF c = 0 THEN "down" ELSE IF c = 2 THEN "up" ELSE "sideways"

\* class_map.get(pred_class, "unknown"), lines 46-47
class_map_get(c) ==
    IF c = 0 THEN "down"
    ELSE IF c = 1 THEN "sideways"
    ELSE IF c = 2 THEN "up"
    ELSE "unknown"

\* round(prob, 2): thousandths to hundredths, nearest, ties to even
Round2(p) ==
    LET q == p \div 10
        r == p % 10
    IN IF r > 5 \/ (r = 5 /\ q % 2 = 1) THEN q + 1 ELSE q

\* an inclusive volume threshold
VolumeDetailInclusive(td) ==
    IF td.volume24h >= threshold_high_volume
    THEN HighVolumeText ELSE LowVolumeText

\* lines 52-55
VolumeDetail(td) ==
    IF td.volume24h > threshold_high_volume
    THEN HighVolumeText ELSE LowVolumeText

\* lines 56-59
LiquidityDetail(td) ==
    IF td.liquidityUsd > threshold_high_liquidity
    THEN StrongLiquidityText ELSE WeakLiquidityText

\* the list details after lines 51-61
Details(td) ==
    <<VolumeDetail(td), LiquidityDetail(td)>>
    \o (IF td.price < low_price THEN <<LowPriceText>> ELSE <<>>)

\* the f-string of lines 63-69
Reasoning(td, prediction, conf) ==
    LET details == Details(td) IN
    <<Lit("Based on live data -> Price: "), NumSeg(td.price),
      Lit(", Volume24h: "), NumSeg(td.volume24h),
      Lit(" ("), Lit(details[1]),
      Lit("), LiquidityUsd: "), NumSeg(td.liquidityUsd),
      Lit(" ("), Lit(details[2]), Lit("). "),
      Lit(IF Len(details) > 2 THEN details[3] ELSE ""), Lit(" "),
      Lit("Model predicts '"), Lit(prediction),
      Lit("' with confidence "), NumSeg(conf)>>

\* m is the module global model; td the argument; clf what the classifier
\* does when called on the features of td:
\*   [k |-> "ok", cls, prob] | [k |-> "predict_raises"] | [k |-> "proba_raises"]
\* calls counts the classifier methods invoked.  There is no try in
\* predict_trend: an exception of the classifier propagates to the caller.
predict_trend(m, td, clf) ==
    IF m = None \/ td = None THEN Degraded
    ELSE IF clf.k = "predict_raises" THEN [k |-> "raise", calls |-> 1]
    ELSE IF clf.k = "proba_raises" THEN [k |-> "raise", calls |-> 2]
    ELSE LET prediction == class_map_get(clf.cls)
             conf == Round2(clf.prob)
         IN [k |-> "ret", calls |-> 2, prediction |-> prediction,
             confidence |-> conf,
             reasoning |-> Reasoning(td, prediction, conf)]

(***************************************************************************)
(* price_history (app.py:113-135)                                          *)
(***************************************************************************)
\* random.uniform(-0.01, 0.03) in basis points, line 129
DriftLo == -100

DriftHi == 300

\* range(1, 13), line 128
Steps == 12

\* 5 * 60 * 1000, line 131
StepMs == 5 * 60 * 1000

\* len(data["points"]) > 10, line 122
MinPoints == 10

\* a / b to the nearest integer (b > 0)
RoundDiv(a, b) == (2 * a + b) \div (2 * b)

\* round(last_price, 8): to the nearest multiple of 1e-8, line 131
Round8(p) == 100 * RoundDiv(p, 100)

\* the walk continued from the rounded price
NextPriceFromRounded(p, d) == Round8(p + RoundDiv(p * d, 10000))

\* last_price * (1 + drift), line 130, to the nearest price unit
NextPrice(p, d) == p + RoundDiv(p * d, 10000)

\* a step counted from zero
FutureTimeFromZero(last_time, i) == last_time + (i - 1) * StepMs

\* last_time + i * 5 * 60 * 1000, line 131
FutureTime(last_time, i) == last_time + i * StepMs

\* the values of last_price after iterations i, i+1, ... of the loop
RECURSIVE WalkPrices(_, _, _)
WalkPrices(p, ds, i) ==
    IF i > Steps THEN <<>>
    ELSE LET q == NextPrice(p, ds[i]) IN <<q>> \o WalkPrices(q, ds, i + 1)

\* the comprehension of line 123
HistoryOf(points) ==
    LET kept == SelectSeq(points, LAMBDA p : p.hasT /\ p.hasC)
    IN [i \in 1..Len(kept) |-> [time |-> kept[i].t, price |-> kept[i].c]]

EmptyHistory == [history |-> <<>>, future |-> <<>>, walk |-> <<>>]

\* resp: [k |-> "fail"]    requests.get raised
\*       [k |-> "notok"]   not resp.ok or empty body, line 118
\*       [k |-> "badjson"] resp.json() raised
\*       [k |-> "json", haspoints, points]
\* ds: the twelve values random.uniform returns, in order.  walk is the
\* trace of the local last_price; history and future are what is returned.
price_history(resp, ds) ==
    IF resp.k # "json" THEN EmptyHistory             \* lines 119, 135
    ELSE LET history ==
               IF resp.haspoints /\ Len(resp.points) > MinPoints
               THEN HistoryOf(resp.points) ELSE <<>>
         IN IF history = <<>>
            THEN [history |-> history, future |-> <<>>, walk |-> <<>>]
            ELSE LET last == history[Len(history)] IN
                 IF ~Floatable(last.price)
                 THEN EmptyHistory                   \* TypeError, line 135
                 ELSE LET walk == WalkPrices(last.price.v, ds, 1) IN
                      [history |-> history,
                       future |-> [i \in 1..Steps |->
                                     [time |-> FutureTime(last.time, i),
                                      price |-> Round8(walk[i])]],
                       walk |-> walk]

(***************************************************************************)
(* latest_tokens (app.py:84-111)                                           *)
(***************************************************************************)
\* tokens[:8], line 99
TopN == 8

static_tokens ==
    <<[symbol |-> "$TROLL", name |-> "$TROLL", price |-> 100000],
      [symbol |-> "$SHITCOIN", name |-> "$SHITCOIN", price |-> 200000],
      [symbol |-> "$NUB", name |-> "$NUB", price |-> 300000],
      [symbol |-> "$WIF", name |-> "$WIF", price |-> 400000]>>

\* resp: [k |-> "fail"] | [k |-> "json", nullpairs, pairs]
\* an item raises when baseToken is missing or priceUsd is non-numeric text;
\* a missing priceUsd is float(0)
latest_tokens(resp) ==
    IF resp.k = "fail" \/ resp.nullpairs THEN static_tokens
    ELSE IF \E i \in 1..Len(resp.pairs) :
               ~resp.pairs[i].hasBase \/ resp.pairs[i].priceUsd.k = "text"
    THEN static_tokens
    ELSE IF resp.pairs = <<>> THEN static_tokens
    ELSE LET tokens == [i \in 1..Len(resp.pairs) |->
                          [symbol |-> resp.pairs[i].symbol,
                           name |-> resp.pairs[i].name,
                           price |-> resp.pairs[i].priceUsd.v]]
         IN SubSeq(tokens, 1, IF Len(tokens) < TopN THEN Len(tokens) ELSE TopN)

(***************************************************************************)
(* The request handlers, as the record a request slot holds                *)
(*   ep   the endpoint, pc the position, inp the upstream response,        *)
(*   clf  what the classifier did when called (NoCall when not called),    *)
(*   td   the local token_data, res the value of predict_trend (None when  *)
(*   it was not called) or the locals of price_history, out the answer.    *)
(***************************************************************************)
NoCall == [k |-> "nocall"]

IdleSlot ==
    [ep |-> "none", pc |-> "idle", inp |-> None, clf |-> NoCall,
     td |-> None, res |-> None, out |-> None]

NotFound == [k |-> "error", error |-> "Token not found on Solana."]

\* token_data = fetch_token_data(symbol), lines 78 and 139
after_fetch(ep, resp) ==
    [ep |-> ep, pc |-> "fetched", inp |-> resp, clf |-> NoCall,
     td |-> fetch_token_data(resp), res |-> None, out |-> None]

\* lines 79-82; an exception of predict_trend leaves the handler
predict_finish(s, m, clf) ==
    IF s.td = None
    THEN [s EXCEPT !.pc = "done", !.out = NotFound]
    ELSE LET r == predict_trend(m, s.td, clf) IN
         [s EXCEPT !.pc = "done",
                   !.clf = IF r.calls > 0 THEN clf ELSE NoCall,
                   !.res = r,
                   !.out = IF r.k = "raise" THEN [k |-> "exception"]
                           ELSE [k |-> "ok", symbol |-> s.td.symbol,
                                 name |-> s.td.name, price |-> s.td.price,
                                 volume24h |-> s.td.volume24h,
                                 liquidityUsd |-> s.td.liquidityUsd,
                                 prediction |-> r.prediction,
                                 confidence |-> r.confidence,
                                 reasoning |-> r.reasoning]]

\* /api/predict, lines 76-82
predict(m, resp, clf) == predict_finish(after_fetch("predict", resp), m, clf)

\* /api/token-info, lines 137-142
token_info(resp) ==
    LET s == after_fetch("token-info", resp) IN
    [s EXCEPT !.pc = "done",
              !.out = IF s.td = None THEN NotFound
                      ELSE [k |-> "ok", data |-> s.td]]

\* /api/latest-tokens
latest_tokens_slot(resp) ==
    [IdleSlot EXCEPT !.ep = "latest-tokens", !.pc = "done", !.inp = resp,
                     !.out = [k |-> "ok", memecoins |-> latest_tokens(resp)]]

\* /api/history
price_history_slot(resp, ds) ==
    LET h == price_history(resp, ds) IN
    [IdleSlot EXCEPT !.ep = "history", !.pc = "done", !.inp = resp,
                     !.res = [walk |-> h.walk],
                     !.out = [k |-> "ok", history |-> h.history,
                              future |-> h.future]]

\* a direct call predict_trend(td)
call_predict_trend(m, td, clf) ==
    LET r == predict_trend(m, td, clf) IN
    [IdleSlot EXCEPT !.ep = "predict_trend", !.pc = "done",
                     !.clf = IF r.calls > 0 THEN clf ELSE NoCall,
                     !.td = td, !.res = r,
                     !.out = IF r.k = "raise" THEN [k |-> "exception"]
                             ELSE [k |-> "ret"]]

\* a lazy reload of the global on the degraded path
model_after_request_reload(m) == Loaded

\* the module global after a handler ran: no handler assigns model
model_after_request(m) == m

(***************************************************************************)
(* Inputs: what the upstream services and the classifier may answer        *)
(***************************************************************************)
Pair(chain, base, p, v, l) ==
    [chainId |-> chain, hasBase |-> base, symbol |-> "WIF",
     name |-> "dogwifhat", priceUsd |-> p, h24 |-> v, usd |-> l]

\* (price, volume, liquidity) on both sides of each threshold, the example
\* of the specification, and negative values
NumericTriples ==
    ({99999, 100000} \X {20000, 20001} \X {50000, 50001})
    \cup {<<20000, 50000, 10000>>, <<-5, 20001, 50001>>,
          <<100000, -1, 50001>>, <<100000, 20001, -1>>}

SolanaPairs ==
    {Pair("solana", TRUE, Num(t[1]), Num(t[2]), Num(t[3])) : t \in NumericTriples}
    \cup {Pair("solana", TRUE, Text, Num(20001), Num(50001)),
          Pair("solana", TRUE, Absent, Num(20001), Num(50001)),
          Pair("solana", TRUE, Num(100000), Absent, Num(50001)),
          Pair("solana", TRUE, Num(100000), Num(20001), Text),
          Pair("solana", FALSE, Num(100000), Num(20001), Num(50001))}

Pairs == SolanaPairs \cup {Pair("ethereum", TRUE, Num(100000), Num(20001), Num(50001))}

SearchJson(has, null, ps) ==
    [k |-> "json", haspairs |-> has, nullpairs |-> null, pairs |-> ps]

SearchFail == [k |-> "fail", haspairs |-> FALSE, nullpairs |-> FALSE, pairs |-> <<>>]

SearchResponses ==
    {SearchFail, SearchJson(FALSE, FALSE, <<>>), SearchJson(TRUE, TRUE, <<>>)}
    \cup {SearchJson(TRUE, FALSE, ps) :
             ps \in UNION {[1..n -> Pairs] : n \in 0..MaxPairs}}

ClfRaise(kind) == [k |-> kind, cls |-> 0, prob |-> 0]

\* class index 3 stands for every index outside the table
ClfOutcomes ==
    {[k |-> "ok", cls |-> c, prob |-> p] : c \in 0..3, p \in {336, 814, 1000}}
    \cup {ClfRaise("predict_raises"), ClfRaise("proba_raises")}

\* arguments of a direct call of predict_trend
DirectSnapshots ==
    {None} \cup {[symbol |-> "WIF", name |-> "dogwifhat", price |-> t[1],
                  volume24h |-> t[2], liquidityUsd |-> t[3]] : t \in NumericTriples}

\* time of the last point of every upstream series
EndTime == 1000

\* point i of n: evenly spaced, ending at EndTime, with one optional defect
Point(i, n, price, pos, kind) ==
    [hasT |-> ~(i = pos /\ kind = "noT"),
     hasC |-> ~(i = pos /\ kind = "noC"),
     t |-> EndTime - (n - i) * StepMs,
     c |-> IF i = pos /\ kind = "textC" THEN Text ELSE Num(price)]

\* 4e-9 and 1e-5 USD
HistPrices == {40, 100000}

\* series of every length up to MaxPoints; the defect, if any, is at the
\* first or at the last point
Series ==
    UNION {{[i \in 1..n |-> Point(i, n, p, pos, kind)] :
              p \in HistPrices, pos \in {0, 1, n},
              kind \in {"noT", "noC", "textC"}} : n \in 0..MaxPoints}

ChartOther(kind) == [k |-> kind, haspoints |-> FALSE, points |-> <<>>]

ChartResponses ==
    {ChartOther("fail"), ChartOther("notok"), ChartOther("badjson"),
     ChartOther("json")}
    \cup {[k |-> "json", haspoints |-> TRUE, points |-> ps] : ps \in Series}

DriftSet == {DriftLo, DriftHi - 1}

DriftSeqs == [1..Steps -> DriftSet]

ZeroDrifts == [i \in 1..Steps |-> 0]

\* random.uniform is called only inside the loop of lines 128-131
DrawsFor(resp) ==
    IF price_history(resp, ZeroDrifts).future = <<>> THEN {ZeroDrifts}
    ELSE DriftSeqs

Item(base, p) == [hasBase |-> base, symbol |-> "WIF", name |-> "dogwifhat", priceUsd |-> p]

TokensResponses ==
    {[k |-> "fail", nullpairs |-> FALSE, pairs |-> <<>>],
     [k |-> "json", nullpairs |-> TRUE, pairs |-> <<>>]}
    \cup {[k |-> "json", nullpairs |-> FALSE,
           pairs |-> [i \in 1..n |-> IF i = 1 THEN first ELSE Item(TRUE, Num(100000))]] :
             n \in 0..MaxItems,
             first \in {Item(TRUE, Num(100000)), Item(FALSE, Num(100000)),
                        Item(TRUE, Text), Item(TRUE, Absent)}}

(***************************************************************************)
(* Startup and the requests, one at a time (Spec)                          *)
(***************************************************************************)
\* lines 12-18: the load succeeded or failed; no request is in flight
Init ==
    /\ model \in {None, Loaded}
    /\ req = [r \in Slots |-> IdleSlot]

Finish(r, s) ==
    /\ req' = [req EXCEPT ![r] = s]
    /\ model' = model_after_request(model)

Predict(r) ==
    /\ req[r].pc = "idle"
    /\ \E resp \in SearchResponses, clf \in ClfOutcomes :
          Finish(r, predict(model, resp, clf))

TokenInfo(r) ==
    /\ req[r].pc = "idle"
    /\ \E resp \in SearchResponses : Finish(r, token_info(resp))

LatestTokens(r) ==
    /\ req[r].pc = "idle"
    /\ \E resp \in TokensResponses : Finish(r, latest_tokens_slot(resp))

History(r) ==
    /\ req[r].pc = "idle"
    /\ \E resp \in ChartResponses : \E ds \in DrawsFor(resp) :
          Finish(r, price_history_slot(resp, ds))

CallPredictTrend(r) ==
    /\ req[r].pc = "idle"
    /\ \E td \in DirectSnapshots, clf \in ClfOutcomes :
          Finish(r, call_predict_trend(model, td, clf))

\* the answer (or the error page of an escaped exception) is sent
Respond(r) ==
    /\ req[r].pc = "done"
    /\ req' = [req EXCEPT ![r] = IdleSlot]
    /\ UNCHANGED model

Next ==
    \/ Predict(1)
    \/ TokenInfo(1)
    \/ LatestTokens(1)
    \/ History(1)
    \/ CallPredictTrend(1)
    \/ Respond(1)

Spec == Init /\ [][Next]_vars

(***************************************************************************)
(* Concurrent requests (SpecConc): up to MaxReq requests in flight, each   *)
(* handler advancing between its upstream call and its use of model        *)
(***************************************************************************)
Endpoints == {"predict", "token-info", "latest-tokens", "history"}

ConcSearch ==
    {SearchFail,
     SearchJson(TRUE, FALSE, <<Pair("solana", TRUE, Num(20000), Num(50000), Num(10000))>>),
     SearchJson(TRUE, FALSE, <<Pair("solana", TRUE, Text, Num(20001), Num(50001))>>)}

ConcClf == {[k |-> "ok", cls |-> 2, prob |-> 814], ClfRaise("predict_raises")}

ConcChart ==
    {ChartOther("notok"),
     [k |-> "json", haspoints |-> TRUE,
      points |-> [i \in 1..(MinPoints + 1) |-> Point(i, MinPoints + 1, 100000, 0, "noT")]]}

ConcDrifts == {[i \in 1..Steps |-> d] : d \in DriftSet}

ConcTokens ==
    {[k |-> "fail", nullpairs |-> FALSE, pairs |-> <<>>],
     [k |-> "json", nullpairs |-> FALSE, pairs |-> <<Item(TRUE, Num(100000))>>]}

\* the framework hands a request to a worker thread
Arrive(r) ==
    /\ req[r].pc = "idle"
    /\ \E e \in Endpoints :
          req' = [req EXCEPT ![r] = [IdleSlot EXCEPT !.ep = e, !.pc = "start"]]
    /\ UNCHANGED model

\* predict, line 78
FetchStep(r) ==
    /\ req[r].ep = "predict" /\ req[r].pc = "start"
    /\ \E resp \in ConcSearch : Finish(r, after_fetch("predict", resp))

\* predict, lines 79-82: model is read here
TrendStep(r) ==
    /\ req[r].ep = "predict" /\ req[r].pc = "fetched"
    /\ \E clf \in ConcClf : Finish(r, predict_finish(req[r], model, clf))

InfoStep(r) ==
    /\ req[r].ep = "token-info" /\ req[r].pc = "start"
    /\ \E resp \in ConcSearch : Finish(r, token_info(resp))

LatestStep(r) ==
    /\ req[r].ep = "latest-tokens" /\ req[r].pc = "start"
    /\ \E resp \in ConcTokens : Finish(r, latest_tokens_slot(resp))

HistoryStep(r) ==
    /\ req[r].ep = "history" /\ req[r].pc = "start"
    /\ \E resp \in ConcChart, ds \in ConcDrifts :
          Finish(r, price_history_slot(resp, ds))

NextConc ==
    \E r \in Slots :
        \/ Arrive(r)
        \/ FetchStep(r)
        \/ TrendStep(r)
        \/ InfoStep(r)
        \/ LatestStep(r)
        \/ HistoryStep(r)
        \/ Respond(r)

SpecConc == Init /\ [][NextConc]_vars

(***************************************************************************)
(* Properties                                                              *)
(***************************************************************************)
Done(r, e) == req[r].pc = "done" /\ req[r].ep = e

\* predict_trend was called by the request in slot r and its call is over
Called(r) ==
    /\ req[r].pc = "done"
    /\ req[r].ep \in {"predict", "predict_trend"}
    /\ req[r].res # None

ObservationTexts ==
    {HighVolumeText, LowVolumeText, StrongLiquidityText, WeakLiquidityText,
     LowPriceText}

\* C1: whenever the classifier failed to load or the snapshot is absent,
\* predict_trend returns exactly label unknown, confidence 0.0 and the fixed
\* unavailable narrative, calls the classifier not at all, and no volume,
\* liquidity or low-price observation appears in the result.
C1_DegradedExact ==
    \A r \in Slots :
        (Called(r) /\ (model = None \/ req[r].td = None)) =>
            /\ req[r].res.k = "ret"
            /\ req[r].res.prediction = "unknown"
            /\ req[r].res.confidence = 0
            /\ req[r].res.reasoning = <<Lit(UnavailableText)>>
            /\ req[r].res.calls = 0
            /\ \A i \in DOMAIN req[r].res.reasoning :
                   req[r].res.reasoning[i].s \notin ObservationTexts

\* C1 witness: a loaded classifier, an absent snapshot, the degraded result
C1_Witness ==
    \E r \in Slots :
        /\ Done(r, "predict_trend") /\ model = Loaded /\ req[r].td = None
        /\ req[r].res.prediction = "unknown" /\ req[r].res.confidence = 0

\* C2: no step of any request changes model, whatever the interleaving of
\* concurrent requests; hence after a failed load every prediction is the
\* degraded one (unknown, 0.0) and never down, sideways or up.
C2_ModelFixed ==
    /\ [][model' = model]_vars
    /\ [](model = None =>
            \A r \in Slots :
                (Done(r, "predict") /\ req[r].res # None) =>
                    /\ req[r].res.k = "ret"
                    /\ req[r].res.prediction = "unknown"
                    /\ req[r].res.confidence = 0)

\* C2 witness: the load failed, one request got its degraded prediction
\* while another request is still between its steps
C2_Witness ==
    \E r1, r2 \in Slots :
        /\ r1 # r2 /\ model = None
        /\ Done(r1, "predict") /\ req[r1].res = Degraded
        /\ req[r2].ep = "predict" /\ req[r2].pc = "fetched"

\* C3 (as claimed): no call of predict_trend, no forecast and no request
\* ends in a raised exception.
C3_NoExceptionEscapes ==
    \A r \in Slots : req[r].pc = "done" => req[r].out.k # "exception"

\* the number of points of ps that carry both fields
BothFields(ps) == Cardinality({i \in DOMAIN ps : ps[i].hasT /\ ps[i].hasC})

\* C4 (as claimed): fewer than 11 upstream points with both a time and a
\* price field give the empty forecast.
C4_FewPointsNoForecast ==
    \A r \in Slots :
        (Done(r, "history") /\ req[r].inp.k = "json"
         /\ BothFields(req[r].inp.points) < MinPoints + 1) =>
            req[r].out.future = <<>>

\* the last point of ps that carries both fields (there is one)
LastBoth(ps) ==
    ps[CHOOSE i \in DOMAIN ps :
          /\ ps[i].hasT /\ ps[i].hasC
          /\ \A j \in DOMAIN ps : (ps[j].hasT /\ ps[j].hasC) => j <= i]

\* at least 11 points with both fields, each with a numeric price
WellFormedHistory(ps) ==
    /\ BothFields(ps) >= MinPoints + 1
    /\ \A i \in DOMAIN ps : (ps[i].hasT /\ ps[i].hasC) => Floatable(ps[i].c)

\* C5: a history of at least 11 well-formed points gives a forecast of
\* exactly 12 points, the k-th at last input time + k * 300000 ms.
C5_TwelveSteps ==
    \A r \in Slots :
        (Done(r, "history") /\ req[r].inp.k = "json" /\ req[r].inp.haspoints
         /\ WellFormedHistory(req[r].inp.points)) =>
            /\ Len(req[r].out.future) = 12
            /\ \A k \in 1..12 :
                   req[r].out.future[k].time
                     = LastBoth(req[r].inp.points).t + k * 300000

\* C5 witness: the example of the specification, last time 1000
C5_Witness ==
    \E r \in Slots :
        /\ Done(r, "history") /\ req[r].inp.k = "json"
        /\ Len(req[r].inp.points) = 11
        /\ WellFormedHistory(req[r].inp.points)
        /\ LastBoth(req[r].inp.points).t = 1000
        /\ Len(req[r].out.future) = 12
        /\ req[r].out.future[1].time = 301000
        /\ req[r].out.future[12].time = 3601000

\* the price before forecast step k: the input's last price, then the
\* previous returned price
PrevReturned(r, k) ==
    IF k = 1 THEN LastBoth(req[r].inp.points).c.v
    ELSE req[r].out.future[k - 1].price

\* C6 (as claimed): every returned forecast price, rounded as returned, is
\* the immediately preceding price times a factor in [0.99, 1.03).
C6_ReturnedFactorBound ==
    \A r \in Slots :
        (Done(r, "history") /\ req[r].out.future # <<>>) =>
            \A k \in 1..Len(req[r].out.future) :
                /\ 100 * req[r].out.future[k].price >= 99 * PrevReturned(r, k)
                /\ 100 * req[r].out.future[k].price < 103 * PrevReturned(r, k)

\* the running price before step k: the input's last price, then the
\* unrounded running price of the previous step
PrevRunning(r, k) ==
    IF k = 1 THEN LastBoth(req[r].inp.points).c.v
    ELSE req[r].res.walk[k - 1]

\* C6 (amended): the running price of each step is the preceding running
\* price times a factor in [0.99, 1.03), to the nearest price unit, and each
\* returned price is the running price rounded to 8 decimal places (a
\* multiple of 1e-8 within 0.5e-8 of it).
C6_RunningFactorBound ==
    \A r \in Slots :
        (Done(r, "history") /\ req[r].out.future # <<>>) =>
            /\ Len(req[r].res.walk) = Len(req[r].out.future)
            /\ \A k \in 1..Len(req[r].out.future) :
                   LET cur == req[r].res.walk[k]
                       prev == PrevRunning(r, k)
                       ret == req[r].out.future[k].price
                   IN /\ 10000 * cur >= 9900 * prev - 5000
                      /\ 10000 * cur < 10300 * prev + 5000
                      /\ ret % 100 = 0
                      /\ ret - cur <= 50 /\ cur - ret <= 50

\* C6 witness: a forecast from 4e-9 USD whose first returned price is 0
\* although its running price is not
C6_Witness ==
    \E r \in Slots :
        /\ Done(r, "history") /\ req[r].out.future # <<>>
        /\ PrevRunning(r, 1) = 40
        /\ req[r].res.walk[1] > 0
        /\ req[r].out.future[1].price = 0

\* the index of the first pair of ps on the solana chain, 0 when none
FirstMatch(ps) ==
    IF \E i \in DOMAIN ps : ps[i].chainId = "solana"
    THEN CHOOSE i \in DOMAIN ps :
           /\ ps[i].chainId = "solana"
           /\ \A j \in 1..(i - 1) : ps[j].chainId # "solana"
    ELSE 0

\* a record with a missing or non-numeric price, volume or liquidity
BadFields(pair) ==
    \/ pair.priceUsd.k # "num"
    \/ pair.h24.k # "num"
    \/ pair.usd.k # "num"

\* C7: when the upstream answer holds no record on the solana chain (or no
\* record list at all), or the first record on it has a missing or
\* non-numeric price, volume or liquidity, then
\* fetch_token_data returns None (no default, no later record) and
\* /api/predict answers not-found without calling predict_trend or the
\* classifier.
C7_FirstMatchOnly ==
    \A r \in Slots :
        (req[r].pc = "done" /\ req[r].ep \in {"predict", "token-info"}
         /\ \/ req[r].inp.k = "fail"
            \/ ~req[r].inp.haspairs
            \/ req[r].inp.nullpairs
            \/ LET i == FirstMatch(req[r].inp.pairs)
               IN i = 0 \/ BadFields(req[r].inp.pairs[i])) =>
            /\ req[r].td = None
            /\ req[r].out = NotFound
            /\ req[r].res = None
            /\ req[r].clf = NoCall

\* C7 witness: a bad first solana record followed by a good one, not found
C7_Witness ==
    \E r \in Slots :
        /\ Done(r, "predict") /\ model = Loaded
        /\ req[r].inp.k = "json" /\ Len(req[r].inp.pairs) = 2
        /\ req[r].inp.pairs[1].chainId = "solana"
        /\ BadFields(req[r].inp.pairs[1])
        /\ req[r].inp.pairs[2].chainId = "solana"
        /\ ~BadFields(req[r].inp.pairs[2]) /\ req[r].inp.pairs[2].hasBase
        /\ req[r].out = NotFound

\* C8 (as claimed): every snapshot fetch_token_data produces has price,
\* volume24h and liquidityUsd >= 0.
C8_SnapshotNonNegative ==
    \A r \in Slots :
        (req[r].ep \in {"predict", "token-info"} /\ req[r].td # None) =>
            /\ req[r].td.price >= 0
            /\ req[r].td.volume24h >= 0
            /\ req[r].td.liquidityUsd >= 0

\* predict_trend returned a classification (not the degraded result)
Classified(r) ==
    /\ Called(r) /\ model = Loaded /\ req[r].td # None
    /\ req[r].res.k = "ret"

\* the positions of the narrative of slot r that hold one of texts
Positions(r, texts) ==
    {i \in DOMAIN req[r].res.reasoning :
        /\ req[r].res.reasoning[i].t = "text"
        /\ req[r].res.reasoning[i].s \in texts}

\* C9: with the classifier available the narrative holds, in this order,
\* exactly one volume observation (high iff volume24h > 20000), exactly one
\* liquidity observation (strong iff liquidityUsd > 50000), the low-price
\* observation iff price < 1e-5, and last the closing clause with the label
\* and the rounded confidence.
C9_NarrativeRules ==
    \A r \in Slots :
        Classified(r) =>
            LET R == req[r].res.reasoning
                td == req[r].td
                V == Positions(r, {HighVolumeText, LowVolumeText})
                L == Positions(r, {StrongLiquidityText, WeakLiquidityText})
                P == Positions(r, {LowPriceText})
                n == Len(R)
            IN /\ Cardinality(V) = 1 /\ Cardinality(L) = 1
               /\ \A v \in V :
                      R[v].s = HighVolumeText <=> td.volume24h > 20000
               /\ \A l \in L :
                      R[l].s = StrongLiquidityText <=> td.liquidityUsd > 50000
               /\ IF td.price < 100000 THEN Cardinality(P) = 1 ELSE P = {}
               /\ \A v \in V, l \in L : v < l
               /\ \A l \in L, q \in P : l < q
               /\ \A q \in V \cup L \cup P : q < n - 3
               /\ R[n - 3] = Lit("Model predicts '")
               /\ R[n - 2] = Lit(req[r].res.prediction)
               /\ R[n - 1] = Lit("' with confidence ")
               /\ R[n] = NumSeg(req[r].res.confidence)
               /\ req[r].res.confidence = Round2(req[r].clf.prob)

\* C9 witness: the example of the specification (price 0.000002, volume
\* 50000, liquidity 10000, class up, probability 0.814)
C9_Witness ==
    \E r \in Slots :
        /\ Classified(r) /\ req[r].ep = "predict"
        /\ req[r].td.price = 20000 /\ req[r].td.volume24h = 50000
        /\ req[r].td.liquidityUsd = 10000
        /\ req[r].res.prediction = "up" /\ req[r].res.confidence = 81
        /\ Positions(r, {HighVolumeText}) # {}
        /\ Positions(r, {WeakLiquidityText}) # {}
        /\ Positions(r, {LowPriceText}) # {}

\* the table 0 -> down, 1 -> sideways, 2 -> up
LabelOf(c) ==
    CASE c = 0 -> "down" [] c = 1 -> "sideways" [] c = 2 -> "up"
      [] OTHER -> "unknown"

\* C10: with the classifier available and a snapshot present the returned
\* label is the predicted class index mapped 0 -> down, 1 -> sideways,
\* 2 -> up, any other index gives unknown as a normal result, and the same
\* label stands in the closing clause of the narrative.
C10_LabelTable ==
    \A r \in Slots :
        Classified(r) =>
            /\ req[r].clf.k = "ok"
            /\ req[r].res.prediction = LabelOf(req[r].clf.cls)
            /\ req[r].res.reasoning[Len(req[r].res.reasoning) - 2]
                 = Lit(LabelOf(req[r].clf.cls))
            /\ req[r].ep = "predict" =>
                   /\ req[r].out.k = "ok"
                   /\ req[r].out.prediction = LabelOf(req[r].clf.cls)

\* C10 witness: an index outside the table answered as unknown by /api/predict
C10_Witness ==
    \E r \in Slots :
        /\ Classified(r) /\ req[r].ep = "predict"
        /\ req[r].clf.cls = 3
        /\ req[r].out.k = "ok" /\ req[r].out.prediction = "unknown"
        /\ req[r].out.confidence = 100

====
